---- MODULE Spec2Model ----
(***************************************************************************)
(* State-machine model of src/src/createDeferredEffect.ts: the tracked     *)
(* signal (createSignal), the registration entry point                     *)
(* (createDeferredEffect) and the flush loop (runEffects).                 *)
(*                                                                         *)
(* The solid-js primitives the file imports are modelled by their          *)
(* contract: createEffect runs its callback once synchronously and again,  *)
(* synchronously, when a signal read in its previous run changes; a base   *)
(* setter notifies only when the value differs; the owner of code running  *)
(* inside a base effect is that effect, which is disposed with the scope   *)
(* it was created in; queueMicrotask runs the callback after the current   *)
(* synchronous block.                                                      *)
(***************************************************************************)
EXTENDS Integers, Sequences, FiniteSets, TLC

\* Bound: signals hold the values 0..MaxVal.
MaxVal == 1
\* Bound: the invocation counter runs saturates here.
MaxRuns == 3
Vals == 0..MaxVal

\* The tracked signals, the effect functions and the ownership scopes
\* (roots) of the scenarios explored.
Sigs == {"S", "T"}
Fns == {"A", "B", "C"}
Scopes == {"r1"}

\* getOwner() === null
NoOwner == "null"
Owners == Scopes \cup {NoOwner}

\* The owner under which user code registers each effect function.
Home(f) == CASE f = "A" -> "r1" [] f = "B" -> "r1" [] f = "C" -> NoOwner

\* let currentEffect = () => {}
noop == "noop"

Range(q) == {q[i] : i \in 1..Len(q)}

(***************************************************************************)
(* The effect functions passed to createDeferredEffect (user code).        *)
(* A reads S, and reads T only when S is 0 (a conditional dependency).     *)
(* B reads S and throws when S is MaxVal.                                  *)
(* C reads T and writes the value it read to S.                            *)
(***************************************************************************)
Read(s) == [op |-> "read", sig |-> s, arg |-> s, val |-> 0]
ReadIf(c, v, s) == [op |-> "readIf", sig |-> s, arg |-> c, val |-> v]
WriteFrom(s, c) == [op |-> "write", sig |-> s, arg |-> c, val |-> 0]
ThrowIf(c, v) == [op |-> "throwIf", sig |-> c, arg |-> c, val |-> v]

Program(f) ==
  CASE f = "A" -> <<Read("S"), ReadIf("S", 0, "T")>>
    [] f = "B" -> <<Read("S"), ThrowIf("S", MaxVal)>>
    [] f = "C" -> <<Read("T"), WriteFrom("S", "T")>>

VARIABLES
  effectQueue,            \* Set<EffectFunction>, in insertion order
  runningEffects,
  effectDeps,             \* Map<EffectFunction, Set<setter>>, in insertion order
  currentEffect,
  effectTaskIsScheduled,
  value,                  \* the base signals' values
  nodes,                  \* live base effects: [fn, owner, srcs]
  cleanups,               \* onCleanup callbacks registered: [fn, owner]
  disposed,               \* scopes torn down
  microtasks,             \* queued microtasks, each with its captured owner
  pc,                     \* "idle", "loop" (in runEffects), "run" (in fn)
  frame,                  \* the base effect whose callback is executing
  flushOwner,             \* the owner runEffects runs under
  local,                  \* per effect: the values read in its latest run
  home,                   \* per effect: the scope it was registered in
  failed,                 \* a replay threw out of runEffects
  runs,                   \* per effect: calls of fn since the last flush boundary
  trig,                   \* effects a write outside a flush has triggered
  readded,                \* effects a write inside the flush put in the queue
  wr,                     \* the latest tracked write made inside the flush
  removed,                \* effects a teardown took out of a scheduled flush
  ret                     \* per effect: the value its latest completed run returned

vars == <<effectQueue, runningEffects, effectDeps, currentEffect,
          effectTaskIsScheduled, value, nodes, cleanups, disposed,
          microtasks, pc, frame, flushOwner, local, home, failed,
          runs, trig, readded, wr, removed, ret>>

ghosts == <<runs, trig, readded, wr, removed, ret>>

\* The value of a parameter that is not passed (runEffects calls
\* createDeferredEffect(fn) without value), and of a callback's bare return.
Undefined == -1
\* The value argument user code passes to createDeferredEffect(fn, value).
Initial(f) == 0
\* What the effect function returns: the value of the signal it reads first.
Return(f) == local[f][Program(f)[1].sig]

NoFrame == [fn |-> noop, ip |-> 0, srcs |-> {}, kind |-> "none", owner |-> NoOwner,
            prev |-> Undefined]
Unregistered == "unregistered"
Threw == "threw"
NoWrite == [sig |-> "none", val |-> 0, pend |-> {}, seen |-> {}]
NoRuns == [f \in Fns |-> 0]
Bump(r, F) == [f \in Fns |-> IF f \in F /\ r[f] < MaxRuns THEN r[f] + 1 ELSE r[f]]
InFlush == pc = "loop" \/ (pc = "run" /\ frame.kind = "replay")

(***************************************************************************)
(* JS Set and Map operations on effectQueue and effectDeps.                *)
(***************************************************************************)
SetDelete(q, f) == SelectSeq(q, LAMBDA x : x # f)
SetAdd(q, f) == IF f \in Range(q) THEN q ELSE Append(q, f)

MapHas(m, f) == \E i \in 1..Len(m) : m[i].fn = f
MapGet(m, f) == IF MapHas(m, f)
                THEN (CHOOSE e \in Range(m) : e.fn = f).deps
                ELSE {}
MapDelete(m, f) == SelectSeq(m, LAMBDA e : e.fn # f)

(***************************************************************************)
(* createSignal.get, lines 30-38: the registry after a tracked read of s.  *)
(***************************************************************************)
\* Variant of get: the runningEffects test of line 31 left out.
getAlways(m, running, cur, s) ==
  IF MapHas(m, cur)
  THEN [i \in 1..Len(m) |->
          IF m[i].fn = cur THEN [m[i] EXCEPT !.deps = @ \cup {s}] ELSE m[i]]
  ELSE Append(m, [fn |-> cur, deps |-> {s}])

get(m, running, cur, s) ==
  IF ~running THEN m
  ELSE IF MapHas(m, cur)
       THEN [i \in 1..Len(m) |->
               IF m[i].fn = cur THEN [m[i] EXCEPT !.deps = @ \cup {s}] ELSE m[i]]
       ELSE Append(m, [fn |-> cur, deps |-> {s}])

(***************************************************************************)
(* createSignal.set, lines 40-53: the queue after the scan of effectDeps   *)
(* that moves every dependent of s to the end.                             *)
(***************************************************************************)
RECURSIVE moveDependents(_, _, _, _)
moveDependents(q, m, s, i) ==
  IF i > Len(m) THEN q
  ELSE moveDependents(IF s \in m[i].deps
                      THEN SetAdd(SetDelete(q, m[i].fn), m[i].fn)
                      ELSE q,
                      m, s, i + 1)

\* Variant of set: line 50 (effectQueue.add) left out.
setDeleteOnly(q, m, running, s) ==
  IF ~running THEN q
  ELSE SelectSeq(q, LAMBDA x : ~\E i \in 1..Len(m) : m[i].fn = x /\ s \in m[i].deps)

\* Variant of set: the dep === _set test of line 47 left out.
setMoveAll(q, m, running, s) ==
  IF ~running THEN q
  ELSE SelectSeq(q, LAMBDA x : ~MapHas(m, x)) \o [i \in 1..Len(m) |-> m[i].fn]

\* Variant of set: line 49 (effectQueue.delete) left out.
setAddOnly(q, m, running, s) ==
  IF ~running THEN q
  ELSE LET add == SelectSeq(m, LAMBDA e : s \in e.deps /\ e.fn \notin Range(q))
       IN q \o [i \in 1..Len(add) |-> add[i].fn]

set(q, m, running, s) ==
  IF ~running THEN q ELSE moveDependents(q, m, s, 1)

(***************************************************************************)
(* createDeferredEffect's createEffect callback after the first run,       *)
(* lines 94-110.  st = [queue, scheduled, tasks]; n is the base effect     *)
(* being rerun, whose owner getOwner() yields; st.ran holds the functions  *)
(* the callback has called (it calls none).                                *)
(***************************************************************************)
\* Variant of rerun: the effectTaskIsScheduled test (line 101) placed before
\* the effectQueue.add of line 94.
rerunLateAdd(st, running, n) ==
  IF running THEN [st EXCEPT !.queue = SetAdd(@, n.fn)]
  ELSE IF st.scheduled THEN st
  ELSE [st EXCEPT !.queue = SetAdd(@, n.fn), !.scheduled = TRUE,
                  !.tasks = Append(@, n.owner)]

\* Variant of rerun: the callback also calls fn at once.
rerunEager(st, running, n) ==
  LET q == SetAdd(st.queue, n.fn) IN
  IF running THEN [st EXCEPT !.queue = q, !.ran = @ \cup {n.fn}]
  ELSE IF st.scheduled THEN [st EXCEPT !.queue = q, !.ran = @ \cup {n.fn}]
  ELSE [st EXCEPT !.queue = q, !.scheduled = TRUE, !.tasks = Append(@, n.owner),
                  !.ran = @ \cup {n.fn}]

\* Variant of rerun: the effectTaskIsScheduled test (line 101) left out.
rerunUnguarded(st, running, n) ==
  LET q == SetAdd(st.queue, n.fn) IN
  IF running THEN [st EXCEPT !.queue = q]
  ELSE [st EXCEPT !.queue = q, !.scheduled = TRUE, !.tasks = Append(@, n.owner)]

\* Variant of rerun: lines 103-110 left out (no flush is scheduled).
rerunNoSchedule(st, running, n) == [st EXCEPT !.queue = SetAdd(@, n.fn)]

rerun(st, running, n) ==
  LET q == SetAdd(st.queue, n.fn) IN
  IF running THEN [st EXCEPT !.queue = q]
  ELSE IF st.scheduled THEN [st EXCEPT !.queue = q]
  ELSE [st EXCEPT !.queue = q, !.scheduled = TRUE, !.tasks = Append(@, n.owner)]

RECURSIVE rerunAll(_, _, _, _)
rerunAll(st, running, ns, i) ==
  IF i > Len(ns) THEN st
  ELSE rerunAll(rerun(st, running, ns[i]), running, ns, i + 1)

Orderings(X) ==
  {p \in [1..Cardinality(X) -> X] : \A i, j \in 1..Cardinality(X) : p[i] = p[j] => i = j}

(***************************************************************************)
(* The base setter _set(v): the base effects subscribed to s rerun, in the *)
(* order the base library keeps them, when the value changes.  The results *)
(* of rerunning the set N in every order: only the order of the distinct   *)
(* functions and the owner of the first effect rerun can matter.           *)
(***************************************************************************)
Notified(s, v, ns) == IF v = value[s] THEN {} ELSE {n \in ns : s \in n.srcs}

Notify(N, st, running) ==
  IF N = {} THEN {st}
  ELSE {rerunAll(st, running,
                 [i \in 1..Len(ord) |->
                    IF i = 1 THEN first ELSE CHOOSE n \in N : n.fn = ord[i]],
                 1) :
          <<first, ord>> \in {x \in N \X Orderings({n.fn : n \in N}) : x[2][1] = x[1].fn}}

Sched == [queue |-> effectQueue, scheduled |-> effectTaskIsScheduled,
          tasks |-> microtasks, ran |-> {}]

Init ==
  /\ effectQueue = <<>>
  /\ runningEffects = FALSE
  /\ effectDeps = <<>>
  /\ currentEffect = noop
  /\ effectTaskIsScheduled = FALSE
  /\ value = [s \in Sigs |-> 0]
  /\ nodes = {}
  /\ cleanups = {}
  /\ disposed = {}
  /\ microtasks = <<>>
  /\ pc = "idle"
  /\ frame = NoFrame
  /\ flushOwner = NoOwner
  /\ local = [f \in Fns |-> <<>>]
  /\ home = [f \in Fns |-> Unregistered]
  /\ failed = FALSE
  /\ runs = NoRuns
  /\ trig = {}
  /\ readded = {}
  /\ wr = NoWrite
  /\ removed = {}
  /\ ret = [f \in Fns |-> Undefined]

(***************************************************************************)
(* Line 88: effectDeps.get(fn)?.clear()                                    *)
(***************************************************************************)
\* Variant of clearDeps: line 88 left out.
clearDepsKept(m, f) == m

clearDeps(m, f) ==
  [i \in 1..Len(m) |-> IF m[i].fn = f THEN [m[i] EXCEPT !.deps = {}] ELSE m[i]]

(***************************************************************************)
(* createDeferredEffect(fn) up to the call of fn, lines 80-89: a new base  *)
(* effect is created under owner o and its callback runs at once.          *)
(***************************************************************************)
\* Variant of initialRun: the first run is not made (fn is not called).
initialRunDeferred(f, o, kind, v) ==
  /\ frame' = [fn |-> f, ip |-> Len(Program(f)) + 1, srcs |-> {}, kind |-> kind,
               owner |-> o, prev |-> v]
  /\ currentEffect' = f
  /\ effectDeps' = effectDeps
  /\ local' = local
  /\ runs' = runs
  /\ wr' = wr
  /\ pc' = "run"

initialRun(f, o, kind, v) ==
  /\ frame' = [fn |-> f, ip |-> 1, srcs |-> {}, kind |-> kind, owner |-> o,
               prev |-> v]
  /\ currentEffect' = f
  /\ effectDeps' = clearDeps(effectDeps, f)
  /\ local' = [local EXCEPT ![f] = <<>>]
  /\ runs' = Bump(runs, {f})
  /\ wr' = IF f \in wr.pend THEN [wr EXCEPT !.seen = @ \cup {f}] ELSE wr
  /\ pc' = "run"

\* User code calls createDeferredEffect(f) under scope o (or under no owner).
createDeferredEffect(f, o) ==
  /\ pc = "idle"
  /\ home[f] = Unregistered
  /\ o = Home(f)
  /\ o \notin disposed
  /\ initialRun(f, o, "first", Initial(f))
  /\ UNCHANGED <<effectQueue, runningEffects, effectTaskIsScheduled, value, nodes,
                 cleanups, disposed, microtasks, flushOwner, home, failed,
                 trig, readded, removed, ret>>

Op == Program(frame.fn)[frame.ip]
InFn == pc = "run" /\ frame.ip <= Len(Program(frame.fn))

\* fn reads a tracked signal (get, lines 30-38).
doRead(s) ==
  /\ effectDeps' = get(effectDeps, runningEffects, currentEffect, s)
  /\ local' = [local EXCEPT ![frame.fn] = (s :> value[s]) @@ @]
  /\ frame' = [frame EXCEPT !.ip = @ + 1, !.srcs = @ \cup {s}]

fnRead ==
  /\ InFn
  /\ Op.op \in {"read", "readIf"}
  /\ IF Op.op = "read" \/ local[frame.fn][Op.arg] = Op.val
     THEN doRead(Op.sig)
     ELSE /\ frame' = [frame EXCEPT !.ip = @ + 1]
          /\ UNCHANGED <<effectDeps, local>>
  /\ UNCHANGED <<effectQueue, runningEffects, currentEffect, effectTaskIsScheduled,
                 value, nodes, cleanups, disposed, microtasks, pc, flushOwner,
                 home, failed, ghosts>>

\* A tracked write set(v) of signal s (lines 40-56); own is the set holding
\* the base effect whose callback is executing, if any.
write(s, v, own) ==
  LET q1 == set(effectQueue, effectDeps, runningEffects, s)
      N == Notified(s, v, nodes \cup own)
  IN /\ \E r \in Notify(N, [Sched EXCEPT !.queue = q1], runningEffects) :
          /\ effectQueue' = r.queue
          /\ effectTaskIsScheduled' = r.scheduled
          /\ microtasks' = r.tasks
          /\ runs' = Bump(runs, r.ran)
          /\ readded' = IF InFlush
                        THEN readded \cup (Range(r.queue) \ Range(effectQueue))
                        ELSE readded
     /\ value' = [value EXCEPT ![s] = v]
     /\ nodes' = nodes \ N
     /\ trig' = IF InFlush \/ failed THEN trig ELSE trig \cup {n.fn : n \in N}
     /\ wr' = IF InFlush
              THEN [sig |-> s, val |-> v, pend |-> Range(effectQueue), seen |-> {}]
              ELSE wr

fnWrite ==
  /\ InFn
  /\ Op.op = "write"
  /\ LET own == [fn |-> frame.fn, owner |-> frame.owner, srcs |-> frame.srcs]
         v == local[frame.fn][Op.arg]
     IN /\ write(Op.sig, v, {own})
        /\ frame' = [frame EXCEPT !.ip = @ + 1,
                                  !.srcs = IF own \in Notified(Op.sig, v, {own})
                                           THEN {} ELSE @]
  /\ UNCHANGED <<runningEffects, effectDeps, currentEffect, cleanups, disposed,
                 pc, flushOwner, local, home, failed, removed, ret>>

\* The base effect just run stays subscribed to what it read.
Subscribed == IF frame.srcs = {} THEN {}
              ELSE {[fn |-> frame.fn, owner |-> frame.owner, srcs |-> frame.srcs]}

(***************************************************************************)
(* runEffects, lines 123-133, when createDeferredEffect(fn) throws at line *)
(* 128: there is no try/finally, so lines 131-132 are skipped and the      *)
(* flags keep their values.                                                *)
(***************************************************************************)
\* Variant of unwind: line 131 in a finally block.
unwindRunning(running, scheduled) == [running |-> FALSE, scheduled |-> scheduled]

\* Variant of unwind: lines 131-132 in a finally block.
unwindFinally(running, scheduled) == [running |-> FALSE, scheduled |-> FALSE]

unwind(running, scheduled) == [running |-> running, scheduled |-> scheduled]

\* fn throws: the exception leaves createDeferredEffect (lines 116-120 are
\* skipped) and, in a replay, runEffects and its microtask.
fnThrow ==
  /\ InFn
  /\ Op.op = "throwIf"
  /\ IF local[frame.fn][Op.arg] = Op.val
     THEN /\ nodes' = nodes \cup Subscribed
          /\ frame' = NoFrame
          /\ pc' = "idle"
          /\ flushOwner' = NoOwner
          /\ failed' = (failed \/ frame.kind = "replay")
          /\ home' = IF frame.kind = "first" THEN [home EXCEPT ![frame.fn] = Threw] ELSE home
          /\ LET u == unwind(runningEffects, effectTaskIsScheduled) IN
               IF frame.kind = "replay"
               THEN runningEffects' = u.running /\ effectTaskIsScheduled' = u.scheduled
               ELSE UNCHANGED <<runningEffects, effectTaskIsScheduled>>
          /\ runs' = NoRuns
          /\ trig' = IF frame.kind = "replay" THEN {} ELSE trig
          /\ readded' = {}
          /\ wr' = NoWrite
          /\ removed' = IF frame.kind = "replay" THEN {} ELSE removed
     ELSE /\ frame' = [frame EXCEPT !.ip = @ + 1]
          /\ UNCHANGED <<nodes, pc, flushOwner, failed, home, runningEffects,
                         effectTaskIsScheduled, ghosts>>
  /\ UNCHANGED <<effectQueue, effectDeps, currentEffect, value, cleanups, disposed,
                 microtasks, local, ret>>

\* fn returns; lines 116-120 register the cleanup when an owner is active.
fnReturn ==
  /\ pc = "run"
  /\ frame.ip > Len(Program(frame.fn))
  /\ nodes' = nodes \cup Subscribed
  /\ cleanups' = IF frame.owner # NoOwner
                 THEN cleanups \cup {[fn |-> frame.fn, owner |-> frame.owner]}
                 ELSE cleanups
  /\ home' = IF frame.kind = "first" THEN [home EXCEPT ![frame.fn] = frame.owner] ELSE home
  /\ pc' = IF frame.kind = "first" THEN "idle" ELSE "loop"
  /\ frame' = NoFrame
  /\ runs' = IF frame.kind = "first" THEN NoRuns ELSE runs
  /\ ret' = [ret EXCEPT ![frame.fn] = Return(frame.fn)]
  /\ UNCHANGED <<effectQueue, runningEffects, effectDeps, currentEffect,
                 effectTaskIsScheduled, value, disposed, microtasks, flushOwner,
                 local, failed, trig, readded, wr, removed>>

\* User code writes a tracked signal outside any effect.
userWrite(s, v) ==
  /\ pc = "idle"
  /\ write(s, v, {})
  /\ UNCHANGED <<runningEffects, effectDeps, currentEffect, cleanups, disposed,
                 pc, frame, flushOwner, local, home, failed, removed, ret>>

(***************************************************************************)
(* The onCleanup callback, lines 117-120, for the functions F whose        *)
(* cleanup was registered in the scope torn down.                          *)
(***************************************************************************)
cleanupDeps(m, F) == SelectSeq(m, LAMBDA e : e.fn \notin F)

\* Variant of cleanupQueue: line 119 left out.
cleanupQueueKept(q, F) == q

cleanupQueue(q, F) == SelectSeq(q, LAMBDA x : x \notin F)

\* User code disposes scope sc: its cleanups run and its base effects die.
dispose(sc) ==
  /\ pc = "idle"
  /\ sc \notin disposed
  /\ LET F == {c.fn : c \in {c \in cleanups : c.owner = sc}} IN
       /\ effectDeps' = cleanupDeps(effectDeps, F)
       /\ effectQueue' = cleanupQueue(effectQueue, F)
       /\ trig' = trig \ F
       /\ removed' = IF microtasks # <<>>
                      THEN removed \cup {f \in Range(effectQueue) : home[f] = sc}
                      ELSE removed
  /\ nodes' = {n \in nodes : n.owner # sc}
  /\ cleanups' = {c \in cleanups : c.owner # sc}
  /\ disposed' = disposed \cup {sc}
  /\ UNCHANGED <<runningEffects, currentEffect, effectTaskIsScheduled, value,
                 microtasks, pc, frame, flushOwner, local, home, failed,
                 runs, readded, wr, ret>>

\* The microtask of lines 107-110 runs: runEffects starts (line 124).  What
\* is created under an owner already disposed is never disposed.
runEffectsBegin ==
  /\ pc = "idle"
  /\ microtasks # <<>>
  /\ microtasks' = Tail(microtasks)
  /\ flushOwner' = IF Head(microtasks) \in disposed THEN NoOwner ELSE Head(microtasks)
  /\ runningEffects' = TRUE
  /\ pc' = "loop"
  /\ UNCHANGED <<effectQueue, effectDeps, currentEffect, effectTaskIsScheduled,
                 value, nodes, cleanups, disposed, frame, local, home, failed,
                 ghosts>>

\* One iteration of the loop, lines 126-128, up to the call of fn.
runEffectsNext ==
  /\ pc = "loop"
  /\ effectQueue # <<>>
  /\ effectQueue' = Tail(effectQueue)
  /\ initialRun(Head(effectQueue), flushOwner, "replay", Undefined)
  /\ UNCHANGED <<runningEffects, effectTaskIsScheduled, value, nodes, cleanups,
                 disposed, microtasks, flushOwner, home, failed,
                 trig, readded, removed, ret>>

\* Variant of runEffectsEnd: the loop of line 126 visits a snapshot of the
\* queue, so it can end while effects added during the drain remain.
runEffectsEndEarly ==
  /\ pc = "loop"
  /\ runningEffects' = FALSE
  /\ effectTaskIsScheduled' = FALSE
  /\ pc' = "idle"
  /\ flushOwner' = NoOwner
  /\ runs' = NoRuns
  /\ trig' = {}
  /\ readded' = {}
  /\ wr' = NoWrite
  /\ removed' = {}
  /\ UNCHANGED <<effectQueue, effectDeps, currentEffect, value, nodes, cleanups,
                 disposed, microtasks, frame, local, home, failed, ret>>

\* The loop ends, lines 131-132.
runEffectsEnd ==
  /\ pc = "loop"
  /\ effectQueue = <<>>
  /\ runningEffects' = FALSE
  /\ effectTaskIsScheduled' = FALSE
  /\ pc' = "idle"
  /\ flushOwner' = NoOwner
  /\ runs' = NoRuns
  /\ trig' = {}
  /\ readded' = {}
  /\ wr' = NoWrite
  /\ removed' = {}
  /\ UNCHANGED <<effectQueue, effectDeps, currentEffect, value, nodes, cleanups,
                 disposed, microtasks, frame, local, home, failed, ret>>

Next ==
  \/ \E f \in Fns, o \in Owners : createDeferredEffect(f, o)
  \/ fnRead
  \/ fnWrite
  \/ fnThrow
  \/ fnReturn
  \/ \E s \in Sigs, v \in Vals : userWrite(s, v)
  \/ \E sc \in Scopes : dispose(sc)
  \/ runEffectsBegin
  \/ runEffectsNext
  \/ runEffectsEnd

Spec == Init /\ [][Next]_vars

(***************************************************************************)
(* Vocabulary of the properties.                                           *)
(***************************************************************************)
\* runEffects has left its loop and is about to reset the flags.
LoopExit == pc = "loop" /\ effectQueue = <<>>
\* The scope f was registered in is still alive.
Registered(f) == home[f] \in Owners /\ home[f] \notin disposed
\* f's function reads s on every run.
DependsOn(f, s) == \E i \in 1..Len(Program(f)) : Program(f)[i] = Read(s)
\* The step is a tracked write: by user code, or by the running effect.
UserStep == pc = "idle" /\ pc' = "idle" /\ disposed' = disposed
FnWriteStep == InFn /\ Op.op = "write"
ThrowStep == InFn /\ Op.op = "throwIf" /\ local[frame.fn][Op.arg] = Op.val
Occurrences(q, f) == Cardinality({i \in 1..Len(q) : q[i] = f})

(***************************************************************************)
(* C1 as stated.  Coalescing: an effect whose dependency was written in    *)
(* the synchronous block before a flush is replayed exactly once in that   *)
(* flush.                                                                  *)
(***************************************************************************)
C1_ReplayedExactlyOnce == LoopExit => \A f \in trig : runs[f] = 1

(***************************************************************************)
(* C1 amended.  After the writes of one synchronous block the triggered    *)
(* effect is in the queue exactly once and one flush is scheduled; when    *)
(* that flush reaches its end the effect has been replayed at least once,  *)
(* and more than once only if a write made during the drain put it back.   *)
(***************************************************************************)
C1_Coalescing ==
  /\ (pc = "idle" /\ ~failed) =>
       /\ \A f \in trig : Occurrences(effectQueue, f) = 1
       /\ trig # {} => Len(microtasks) = 1
  /\ LoopExit => \A f \in trig : runs[f] >= 1 /\ (runs[f] > 1 => f \in readded)

C1_Witness == LoopExit /\ "A" \in trig /\ runs["A"] = 1 /\ "A" \notin readded

(***************************************************************************)
(* C2.  Deferral: a tracked write (by user code or by a running effect)    *)
(* calls no effect function; it only changes the signal, the queue and the *)
(* flush scheduling, scheduling at most one microtask.  An effect function *)
(* is called only by its registration or by the flush loop.                *)
(***************************************************************************)
C2_Deferral ==
  [][ /\ (UserStep \/ FnWriteStep) =>
           /\ runs' = runs
           /\ pc' = pc
           /\ frame'.fn = frame.fn
           /\ effectDeps' = effectDeps
           /\ currentEffect' = currentEffect
           /\ runningEffects' = runningEffects
           /\ local' = local
           /\ Len(microtasks') <= Len(microtasks) + 1
      /\ \A f \in Fns : runs'[f] > runs[f] =>
           \/ pc = "idle" /\ frame'.kind = "first" /\ frame'.fn = f
           \/ pc = "loop" /\ effectQueue # <<>> /\ Head(effectQueue) = f
    ]_vars

C2_Witness ==
  /\ pc = "idle" /\ ~failed /\ microtasks # <<>>
  /\ \E f \in Range(effectQueue) :
       Registered(f) /\ \E s \in DOMAIN local[f] : local[f][s] # value[s]

Quiescent ==
  pc = "idle" /\ effectQueue = <<>> /\ ~runningEffects /\ ~effectTaskIsScheduled

C4_NoStaleObservation ==
  Quiescent =>
    \A f \in Fns : Registered(f) =>
      \A s \in DOMAIN local[f] : local[f][s] = value[s]

(***************************************************************************)
(* C5.  Reordering: after a replay has written signal s during a flush,    *)
(* every effect that reads s and was pending at that write is still        *)
(* pending, or has been replayed since and read the value written.         *)
(***************************************************************************)
C5_Reordering ==
  (InFlush /\ wr # NoWrite) =>
    \A f \in wr.pend : DependsOn(f, wr.sig) =>
      \/ f \in Range(effectQueue)
      \/ /\ f \in wr.seen
         /\ pc = "run" /\ frame.fn = f
         /\ wr.sig \in DOMAIN local[f] => local[f][wr.sig] = wr.val
      \/ /\ f \in wr.seen
         /\ wr.sig \in DOMAIN local[f]
         /\ local[f][wr.sig] = wr.val

C5_Witness ==
  /\ LoopExit
  /\ wr.sig = "S"
  /\ {"A", "B"} \subseteq wr.pend
  /\ {"A", "B"} \subseteq wr.seen
  /\ local["A"]["S"] = wr.val
  /\ local["B"]["S"] = wr.val

(***************************************************************************)
(* C6.  Dynamic dependencies: a write to signal s does not put into the    *)
(* queue an effect whose latest run did not read s.                        *)
(***************************************************************************)
WritesTo(s) ==
  \/ FnWriteStep /\ Op.sig = s
  \/ UserStep /\ value'[s] # value[s]

C6_DynamicDependencies ==
  [][\A s \in Sigs : WritesTo(s) =>
       \A f \in Fns :
         ( /\ DOMAIN local[f] # {}
           /\ s \notin DOMAIN local[f]
           /\ ~(pc = "run" /\ frame.fn = f)
           /\ f \notin Range(effectQueue) )
         => f \notin Range(effectQueue')]_vars

C6_Witness ==
  /\ pc = "idle" /\ ~failed
  /\ Registered("A")
  /\ DOMAIN local["A"] = {"S"}
  /\ local["A"]["S"] = value["S"]
  /\ "A" \notin Range(effectQueue)
  /\ "C" \in Range(effectQueue)
  /\ local["C"]["T"] # value["T"]

(***************************************************************************)
(* C7.  Cleanup: tearing down the scope an effect was registered in takes  *)
(* the effect out of the queue and of the registry, and the flush that was *)
(* scheduled then does not call it.                                        *)
(***************************************************************************)
C7_Cleanup ==
  /\ [][\A sc \in disposed' \ disposed : \A f \in Fns : home[f] = sc =>
          /\ f \notin Range(effectQueue')
          /\ ~MapHas(effectDeps', f)]_vars
  /\ []((pc = "run" /\ frame.kind = "replay") => frame.fn \notin removed)

C7_Witness == LoopExit /\ removed # {} /\ \A f \in removed : runs[f] = 0

(***************************************************************************)
(* C8 as stated, where no replay has thrown.  An effect whose scope has    *)
(* been torn down is not in the queue and is not replayed.                 *)
(***************************************************************************)
C8_QueuedAreRegistered ==
  ~failed =>
    /\ \A f \in Range(effectQueue) : home[f] \notin disposed
    /\ (pc = "run" /\ frame.kind = "replay") => home[frame.fn] \notin disposed

(***************************************************************************)
(* C9.  Single-flight flush: at most one flush is scheduled or running; a  *)
(* microtask is queued only when runningEffects and effectTaskIsScheduled  *)
(* are both false, and runEffects is entered only when it is not running.  *)
(***************************************************************************)
C9_SingleFlight ==
  /\ [](/\ Len(microtasks) + (IF InFlush THEN 1 ELSE 0) <= 1
        /\ microtasks # <<>> => effectTaskIsScheduled /\ ~runningEffects
        /\ InFlush => effectTaskIsScheduled /\ runningEffects)
  /\ [][Len(microtasks') > Len(microtasks) =>
          /\ ~runningEffects
          /\ ~effectTaskIsScheduled
          /\ Len(microtasks') = Len(microtasks) + 1]_vars
  /\ [][(pc = "idle" /\ pc' = "loop") => ~runningEffects]_vars

C9_Witness == microtasks # <<>> /\ Len(effectQueue) >= 2

(***************************************************************************)
(* C10.  Exception during replay: the throw leaves runEffects at once,     *)
(* with the queue as it was and both flags unchanged, that is true; the    *)
(* effects left in the queue are not replayed in that tick.                *)
(***************************************************************************)
C10_ExceptionDuringReplay ==
  /\ [][(ThrowStep /\ frame.kind = "replay") =>
          /\ pc' = "idle"
          /\ failed'
          /\ effectQueue' = effectQueue
          /\ runningEffects' = runningEffects
          /\ effectTaskIsScheduled' = effectTaskIsScheduled]_vars
  /\ [](failed =>
          /\ runningEffects
          /\ effectTaskIsScheduled
          /\ ~InFlush
          /\ microtasks = <<>>)

C10_Witness ==
  failed /\ effectQueue # <<>> /\ runningEffects /\ effectTaskIsScheduled

(***************************************************************************)
(* Fairness of the host: a queued microtask runs once the synchronous      *)
(* block ends, and code that is executing runs on to its end.              *)
(***************************************************************************)
Running == runEffectsBegin \/ runEffectsNext \/ runEffectsEnd
             \/ fnRead \/ fnWrite \/ fnThrow \/ fnReturn

LiveSpec == Spec /\ WF_vars(Running)

\* No effect function has thrown, in a first run or in a replay.
NoThrow == ~failed /\ \A f \in Fns : home[f] # Threw

(***************************************************************************)
(* C12.  Idle invariant: while no effect function has thrown, a non-empty  *)
(* queue has a flush scheduled or in progress; the step in which           *)
(* runEffects returns leaves the queue empty and both flags false.         *)
(***************************************************************************)
C12_IdleInvariant ==
  /\ []((NoThrow /\ effectQueue # <<>>) =>
          /\ effectTaskIsScheduled \/ runningEffects
          /\ microtasks # <<>> \/ InFlush)
  /\ [][(pc = "loop" /\ pc' = "idle") =>
          /\ effectQueue' = <<>>
          /\ ~runningEffects'
          /\ ~effectTaskIsScheduled']_vars

C12_Witness ==
  /\ NoThrow /\ pc = "idle"
  /\ effectQueue = <<>> /\ ~runningEffects /\ ~effectTaskIsScheduled
  /\ \E f \in Fns : MapHas(effectDeps, f)

\* runEffects is replaying f: createDeferredEffect(f) of line 128 is running.
Replaying(f) == pc = "run" /\ frame.kind = "replay" /\ frame.fn = f

(***************************************************************************)
(* C11.  Eventual replay: unless a replay throws or a scope is torn down,  *)
(* every effect in the queue is eventually replayed: the queue is          *)
(* eventually drained, and an effect leaves the queue only by being        *)
(* replayed (or by a teardown).  runningEffects is reset only when the     *)
(* queue is empty, so an effect added or re-added during the drain is      *)
(* replayed before that flush ends.                                        *)
(***************************************************************************)
C11_EventualReplay ==
  /\ (effectQueue # <<>>) ~> (effectQueue = <<>> \/ failed \/ disposed # {})
  /\ [][\A f \in Range(effectQueue) :
          f \notin Range(effectQueue') =>
            \/ pc = "loop" /\ pc' = "run" /\ frame'.kind = "replay" /\ frame'.fn = f
            \/ disposed' # disposed]_vars
  /\ [][(runningEffects /\ ~runningEffects') => effectQueue = <<>>]_vars

\* A's second replay in one flush, after a write during the drain re-added it.
C11_Witness ==
  /\ LoopExit
  /\ "A" \in readded
  /\ runs["A"] = 2
  /\ disposed = {}

\* The effects whose set in the registry m holds the writer of s.
Dependents(m, s) == {m[i].fn : i \in {j \in 1..Len(m) : s \in m[j].deps}}
\* The position of f in the queue q.
Pos(q, f) == CHOOSE i \in 1..Len(q) : q[i] = f

(***************************************************************************)
(* C13.  A tracked write of s made while runningEffects is true leaves     *)
(* every effect whose registry set holds s in the queue, after every       *)
(* effect that was queued and does not depend on s; dependents that were   *)
(* dequeued earlier or are executing are put back; the non-dependents keep *)
(* their membership and order, and nothing else enters the queue but what  *)
(* the base write reruns.                                                  *)
(***************************************************************************)
C13_TrackedWriteMovesDependents ==
  [][\A s \in Sigs : (runningEffects /\ WritesTo(s)) =>
       LET D == Dependents(effectDeps, s)
           others == SelectSeq(effectQueue, LAMBDA x : x \notin D)
       IN /\ D \subseteq Range(effectQueue')
          /\ \A d \in D : \A f \in Range(others) :
               Pos(effectQueue', d) > Pos(effectQueue', f)
          /\ SelectSeq(effectQueue', LAMBDA x : x \in Range(others)) = others
          /\ \A f \in Range(effectQueue') \ Range(effectQueue) :
               \/ f \in D
               \/ \E n \in nodes : n.fn = f /\ s \in n.srcs
               \/ pc = "run" /\ frame.fn = f /\ s \in frame.srcs
     ]_vars

\* During a flush, A was replayed and then put back by a write to S.
C13_Witness ==
  /\ InFlush
  /\ wr.sig = "S"
  /\ "A" \notin wr.pend
  /\ "A" \in Dependents(effectDeps, "S")
  /\ "A" \in Range(effectQueue)
  /\ runs["A"] = 1

\* The effects whose base effect a write of s reruns when it changes the
\* value: their createEffect callbacks run lines 94-110.
Rerun(s) ==
  {n.fn : n \in {x \in nodes : s \in x.srcs}}
    \cup (IF pc = "run" /\ s \in frame.srcs THEN {frame.fn} ELSE {})

(***************************************************************************)
(* C14 as stated, where no effect function has thrown.  A base rerun of   *)
(* an effect (a base invocation after its first run) leaves the effect at  *)
(* the tail of the queue, moving it there if it was queued: after a write  *)
(* the effects it has rerun are the last members of the queue.             *)
(***************************************************************************)
C14_BaseRerunMovesToTail ==
  [][\A s \in Sigs : (NoThrow /\ WritesTo(s) /\ value'[s] # value[s]) =>
       \A f \in Rerun(s) :
         /\ f \in Range(effectQueue')
         /\ Pos(effectQueue', f) > Len(effectQueue') - Cardinality(Rerun(s))
     ]_vars

(***************************************************************************)
(* C15 as stated.  The step in which runEffects starts the replay of an    *)
(* effect leaves the effect's set in the registry as it was, so that the   *)
(* writers recorded before the replay are still in it afterwards.          *)
(***************************************************************************)
C15_ReplayKeepsDeps ==
  [][(pc = "loop" /\ pc' = "run") =>
       MapGet(effectDeps', frame'.fn) = MapGet(effectDeps, frame'.fn)]_vars

(***************************************************************************)
(* C15 amended.  A replay goes through line 88 like a first run: the step  *)
(* that starts it empties the effect's set in the registry, and while the  *)
(* replay runs, and when it ends, the set holds exactly the signals the    *)
(* replay has read.                                                        *)
(***************************************************************************)
C15_ReplayClearsDeps ==
  /\ [][(pc = "loop" /\ pc' = "run") =>
          /\ frame'.kind = "replay"
          /\ MapGet(effectDeps', frame'.fn) = {}]_vars
  /\ []((pc = "run" /\ frame.kind = "replay") =>
          MapGet(effectDeps, frame.fn) = DOMAIN local[frame.fn])

\* A's second replay in a flush has ended: it read S only, and T, which it
\* reads while S is 0, is not in its set.
C15_Witness ==
  /\ Replaying("A")
  /\ frame.ip > Len(Program("A"))
  /\ runs["A"] = 2
  /\ MapGet(effectDeps, "A") = {"S"}

(***************************************************************************)
(* C16 as stated.  When runEffects replays an effect, the effect function  *)
(* is called with the value its previous run returned as prev.             *)
(***************************************************************************)
C16_PrevThreading ==
  (pc = "run" /\ frame.kind = "replay") => frame.prev = ret[frame.fn]

\* The step is a tracked read made by the running effect function.
FnReadStep == InFn /\ Op.op \in {"read", "readIf"}
\* p is an initial segment of q.
IsPrefix(p, q) == Len(p) <= Len(q) /\ SubSeq(q, 1, Len(p)) = p

(***************************************************************************)
(* C17.  Tracking is bypassed outside a flush: while runningEffects is     *)
(* false a tracked read (those of a first run included) leaves the         *)
(* registry unchanged, and a tracked write does nothing to the queue       *)
(* itself: the queue keeps its members in place and grows only by the      *)
(* effects whose base effect the base write reruns.                        *)
(***************************************************************************)
C17_TrackingBypassed ==
  /\ [][(~runningEffects /\ FnReadStep) =>
          /\ effectDeps' = effectDeps
          /\ effectQueue' = effectQueue]_vars
  /\ [][\A s \in Sigs : (~runningEffects /\ WritesTo(s)) =>
          /\ IsPrefix(effectQueue, effectQueue')
          /\ Range(effectQueue') \ Range(effectQueue) \subseteq Rerun(s)
          /\ effectDeps' = effectDeps]_vars
  /\ [][(~runningEffects /\ (UserStep \/ FnWriteStep) /\ value' = value) =>
          effectQueue' = effectQueue]_vars

\* A first run outside a flush has read both signals, after a flush has
\* recorded dependencies of another effect.
C17_Witness ==
  /\ ~runningEffects
  /\ pc = "run" /\ frame.kind = "first" /\ frame.fn = "A"
  /\ frame.srcs = {"S", "T"}
  /\ ~MapHas(effectDeps, "A")
  /\ effectDeps # <<>>

(***************************************************************************)
(* C18 as stated, where no effect function has thrown and no scope has     *)
(* been torn down.  A replay runs under the scope the effect replayed was  *)
(* registered in, so the cleanup it registers attaches to that scope.      *)
(***************************************************************************)
C18_ReplayUnderOwnScope ==
  (NoThrow /\ disposed = {} /\ pc = "run" /\ frame.kind = "replay") =>
    frame.owner = home[frame.fn]

\* f's replay writes a signal that g reads.
Feeds(f, g) ==
  \E i \in 1..Len(Program(f)), j \in 1..Len(Program(g)) :
    /\ Program(f)[i].op = "write"
    /\ Program(g)[j].op \in {"read", "readIf"}
    /\ Program(f)[i].sig = Program(g)[j].sig
\* The write-to-read relation of the effects has no cycle: it can be ranked.
Acyclic ==
  \E rank \in [Fns -> 1..Cardinality(Fns)] :
    \A f, g \in Fns : Feeds(f, g) => rank[f] < rank[g]

(***************************************************************************)
(* C19.  Flush termination: the effects' write-to-read relation being      *)
(* acyclic, no effect is replayed more than twice in one flush, every      *)
(* flush ends, and it ends (unless a replay throws) with the queue empty   *)
(* and both flags false.                                                   *)
(***************************************************************************)
C19_FlushTerminates ==
  /\ []((Acyclic /\ InFlush) => \A f \in Fns : runs[f] <= 2)
  /\ (Acyclic /\ InFlush) ~> ~InFlush
  /\ [][(Acyclic /\ InFlush /\ ~InFlush') =>
          \/ failed'
          \/ effectQueue' = <<>> /\ ~runningEffects' /\ ~effectTaskIsScheduled']_vars

\* A flush in which A was replayed twice and C once reaches its end.
C19_Witness ==
  /\ LoopExit
  /\ runs["A"] = 2
  /\ runs["C"] = 1
  /\ wr.sig = "S"

(***************************************************************************)
(* C20.  Permanent stall: once a replay has thrown, runningEffects stays   *)
(* true for ever; a later write only adds effects to the queue, no         *)
(* microtask is queued, runEffects is never entered again and no effect    *)
(* is replayed.                                                            *)
(***************************************************************************)
C20_PermanentStall ==
  /\ [][failed =>
          /\ failed'
          /\ runningEffects'
          /\ microtasks' = <<>>
          /\ pc' # "loop"
          /\ pc' = "run" => frame'.kind = "first"]_vars
  /\ [][(failed /\ (UserStep \/ FnWriteStep)) =>
          Range(effectQueue) \subseteq Range(effectQueue')]_vars
  /\ [](failed => runningEffects /\ microtasks = <<>> /\ ~InFlush)

\* After B's replay threw, later writes have put B back in the queue with
\* another effect, and nothing is scheduled.
C20_Witness ==
  /\ failed
  /\ pc = "idle"
  /\ "B" \in Range(effectQueue)
  /\ Len(effectQueue) >= 2
  /\ microtasks = <<>>

====
